---- MODULE Spec2Model ----
(***************************************************************************)
(* The upload pipeline of the Excel-sheet filler: src/main.py and          *)
(* src/safety.py are two variants of the same Flask handler `upload`.      *)
(* A request selects a prompt from the template name, calls the OCR        *)
(* service, isolates a JSON array with a regular expression, parses it     *)
(* with pandas.read_json, copies the template to a timestamped file under  *)
(* outputs/, writes the header row and the data rows into the copy while   *)
(* skipping MergedCell objects, and saves it.                              *)
(*                                                                         *)
(* Text is modelled as a sequence of tokens: each of the characters        *)
(* [ ] { } " : , and each whitespace character is a token of its own, and  *)
(* a maximal run of other characters is one word token.  The regular       *)
(* expression of upload only distinguishes [ ] { } and whitespace, so it   *)
(* acts on tokens exactly as it acts on characters.                        *)
(***************************************************************************)
EXTENDS Integers, Sequences, FiniteSets, TLC

\* ------------------------------------------------------------------ bounds
MaxRows == 2          \* records in one OCR array
MaxClock == 3         \* clock ticks the model runs for
TicksPerSecond == 2   \* clock resolution: ticks in one second of %S

\* ------------------------------------------------------- template names
\* template_name is a string; it is kept as its sequence of characters so
\* that str.upper() and the `in` substring test are computed.
GRINDING == <<"G","R","I","N","D","I","N","G">>
MPI == <<"M","P","I">>
SHOT_BLASTING == <<"S","H","O","T"," ","B","L","A","S","T","I","N","G">>
XLSX == <<".","x","l","s","x">>

TemplateNames ==
  { GRINDING \o XLSX,
    <<"g","r","i","n","d","i","n","g">> \o XLSX,
    MPI \o XLSX,
    <<"m","p","i">> \o XLSX,
    SHOT_BLASTING \o XLSX,
    MPI \o <<" ">> \o GRINDING \o XLSX,
    <<"O","T","H","E","R">> \o XLSX,
    <<"N","O","P","E">> \o XLSX }

\* the files present in formats/ ; NOPE.xlsx and the mixed name are not
TemplateDir ==
  { GRINDING \o XLSX,
    <<"g","r","i","n","d","i","n","g">> \o XLSX,
    MPI \o XLSX,
    <<"m","p","i">> \o XLSX,
    SHOT_BLASTING \o XLSX,
    <<"O","T","H","E","R">> \o XLSX }

LowerCase == <<"a","b","c","d","e","f","g","h","i","j","k","l","m",
               "n","o","p","q","r","s","t","u","v","w","x","y","z">>
UpperCase == <<"A","B","C","D","E","F","G","H","I","J","K","L","M",
               "N","O","P","Q","R","S","T","U","V","W","X","Y","Z">>

\* str.upper(), character by character
upper(s) ==
  [i \in 1..Len(s) |->
     IF \E k \in 1..26 : LowerCase[k] = s[i]
       THEN UpperCase[CHOOSE k \in 1..26 : LowerCase[k] = s[i]]
       ELSE s[i]]

\* the Python test `pat in s` on strings
Contains(pat, s) ==
  \E i \in 1..(Len(s) - Len(pat) + 1) : SubSeq(s, i, i + Len(pat) - 1) = pat

\* prompt selection of main.py: GRINDING in the upper-cased name, else the
\* two-column-pair prompt
SelectPromptMain(name) ==
  IF Contains(GRINDING, upper(name)) THEN "grinding" ELSE "two_column_pair"

\* prompt selection of safety.py: the name is tested as given
SelectPromptSafety(name) ==
  IF Contains(MPI, name) THEN "mpi"
  ELSE IF Contains(SHOT_BLASTING, name) \/ Contains(GRINDING, name)
         THEN "two_column_pair"
  ELSE "generic_table"

SelectPrompt(v, name) ==
  IF v = "main" THEN SelectPromptMain(name) ELSE SelectPromptSafety(name)

\* ------------------------------------------------------ response extractor
IsSpace(c) == c \in {" ", "\n", "\t"}

\* first position >= i that does not hold whitespace (Len(t)+1 when none)
RECURSIVE SkipSpace(_, _)
SkipSpace(t, i) ==
  IF i <= Len(t) /\ IsSpace(t[i]) THEN SkipSpace(t, i + 1) ELSE i

\* the pattern \[\s*{ matches at i
OpensAt(t, i) ==
  /\ t[i] = "["
  /\ SkipSpace(t, i + 1) <= Len(t)
  /\ t[SkipSpace(t, i + 1)] = "{"

\* }\s*\] matches with the } at k
ClosesAt(t, k) ==
  /\ t[k] = "}"
  /\ SkipSpace(t, k + 1) <= Len(t)
  /\ t[SkipSpace(t, k + 1)] = "]"

\* the pattern matches when started at i
MatchesFrom(t, i) ==
  /\ OpensAt(t, i)
  /\ \E k \in (SkipSpace(t, i + 1) + 1)..Len(t) : ClosesAt(t, k)

NoMatch == <<"<no match>">>

\* re.search(r"\[\s*{.*?}\s*\]", result, re.DOTALL) followed by
\* match.group(0): the leftmost start, and from it the shortest run .*?
re_search(t) ==
  IF \E i \in 1..Len(t) : MatchesFrom(t, i)
    THEN LET i == CHOOSE a \in 1..Len(t) :
                    /\ MatchesFrom(t, a)
                    /\ \A b \in 1..(a - 1) : ~MatchesFrom(t, b)
             j == SkipSpace(t, i + 1)
             k == CHOOSE a \in (j + 1)..Len(t) :
                    /\ ClosesAt(t, a)
                    /\ \A b \in (j + 1)..(a - 1) : ~ClosesAt(t, b)
         IN  SubSeq(t, i, SkipSpace(t, k + 1))
    ELSE NoMatch

\* ------------------------------------------------------- extracted records
\* An ExtractedRecord is an ordered mapping: a sequence of <<key, value>>
\* pairs; the key is one word token, the value the token sequence of a
\* JSON string (<<>> is the empty string "").
RecordChoices ==
  { << <<"Die No", <<"5213">>>>, <<"Qty", <<"190">>>> >>,
    << <<"Die No", <<"4209">>>>, <<"Qty", <<"169">>>>,
       <<"Die No.1", <<"RS:B">>>> >>,
    << <<"Die No.1", <<"}">>>>, <<"Die No", <<>>>>, <<"Qty", <<"]">>>> >>,
    << <<"Qty", <<"20">>>>, <<"Die No.1", <<"ok", "}", "]">>>> >> }

\* the arrays the OCR service may answer with: 1..MaxRows records
Arrays == UNION { [1..n -> RecordChoices] : n \in 1..MaxRows }

Styles == {"compact", "pretty"}

Quoted(v) == <<"\"">> \o v \o <<"\"">>

\* "key":"value" ; the pretty style puts a blank after the colon
PairText(p, style) ==
  Quoted(<<p[1]>>) \o <<":">>
    \o (IF style = "pretty" THEN <<" ">> ELSE <<>>) \o Quoted(p[2])

RECURSIVE PairsText(_, _, _)
PairsText(rec, i, style) ==
  IF i > Len(rec) THEN <<>>
  ELSE PairText(rec[i], style)
         \o (IF i < Len(rec) THEN <<",">> ELSE <<>>)
         \o PairsText(rec, i + 1, style)

ObjectText(rec, style) == <<"{">> \o PairsText(rec, 1, style) \o <<"}">>

RECURSIVE ObjectsText(_, _, _)
ObjectsText(a, i, style) ==
  IF i > Len(a) THEN <<>>
  ELSE ObjectText(a[i], style)
         \o (IF i < Len(a)
               THEN IF style = "pretty" THEN <<",", "\n">> ELSE <<",">>
               ELSE <<>>)
         \o ObjectsText(a, i + 1, style)

\* the JSON text of an array of records; the pretty style is the layout of
\* the prompts' examples, a newline after [ and before ]
ArrayText(a, style) ==
  <<"[">> \o (IF style = "pretty" THEN <<"\n">> ELSE <<>>)
    \o ObjectsText(a, 1, style)
    \o (IF style = "pretty" THEN <<"\n">> ELSE <<>>) \o <<"]">>

\* ------------------------------------------------------------ OCR answers
\* what openai.chat.completions.create gives back: an exception, or the
\* text response.choices[0].message.content = pre \o body \o post
Bare == [pre |-> <<>>, post |-> <<>>]
Fenced == [pre |-> <<"Here is the table:", "\n", "~~~json", "\n">>,
           post |-> <<"\n", "~~~">>]
Wrappers == {Bare, Fenced}

UpstreamFailure ==
  [kind |-> "upstream_error", pre |-> <<>>, body |-> <<>>, post |-> <<>>]

ProseAnswers ==
  { [kind |-> "prose", pre |-> <<>>, post |-> <<>>,
     body |-> <<"Sorry, I cannot read this.">>],
    [kind |-> "prose", pre |-> <<>>, post |-> <<>>,
     body |-> <<"The form", " ", "[", "sic", "]", " ", "is blank">>] }

\* an array the pattern accepts and JSON does not: the colon is missing
MalformedAnswer ==
  [kind |-> "malformed", pre |-> <<>>, post |-> <<>>,
   body |-> <<"[", "{">> \o Quoted(<<"Qty">>) \o <<" ">>
              \o Quoted(<<"190">>) \o <<"}", "]">>]

ArrayAnswers ==
  { [kind |-> "array", pre |-> w.pre, post |-> w.post,
     body |-> ArrayText(a, st)] : a \in Arrays, st \in Styles, w \in Wrappers }

Answers == {UpstreamFailure, MalformedAnswer} \cup ProseAnswers \cup ArrayAnswers

FirstRecord ==
  << <<"Die No", <<"5213">>>>, <<"Qty", <<"190">>>> >>

\* the answers used when two requests run side by side
FewAnswers ==
  { UpstreamFailure, MalformedAnswer,
    [kind |-> "prose", pre |-> <<>>, post |-> <<>>,
     body |-> <<"Sorry, I cannot read this.">>],
    [kind |-> "array", pre |-> Fenced.pre, post |-> Fenced.post,
     body |-> ArrayText(<<FirstRecord>>, "pretty")] }

content(answer) == answer.pre \o answer.body \o answer.post

\* ------------------------------------------------------ record normalizer
\* cell and DataFrame values: a string, an int64, a float64, NaN, or None
NaN == [t |-> "nan", v |-> <<>>]
None == [t |-> "none", v |-> <<>>]
StrVal(v) == [t |-> "str", v |-> v]

NumericWords == {"5213", "190", "4209", "169", "20"}

RECURSIVE AppendNew(_, _, _)
AppendNew(cols, rec, i) ==
  IF i > Len(rec) THEN cols
  ELSE AppendNew(IF \E j \in 1..Len(cols) : cols[j] = rec[i][1]
                   THEN cols ELSE Append(cols, rec[i][1]),
                 rec, i + 1)

\* DataFrame(list of dicts): the column labels are the keys in the order
\* in which they first occur
RECURSIVE ColumnUnion(_, _, _)
ColumnUnion(cols, a, i) ==
  IF i > Len(a) THEN cols
  ELSE ColumnUnion(AppendNew(cols, a[i], 1), a, i + 1)

\* DataFrame(list of dicts): a key a dict lacks is NaN
Field(rec, key) ==
  IF \E i \in 1..Len(rec) : rec[i][1] = key
    THEN StrVal(rec[CHOOSE i \in 1..Len(rec) : rec[i][1] = key][2])
    ELSE NaN

IsNumeric(x) == x.t = "str" /\ Len(x.v) = 1 /\ x.v[1] \in NumericWords

\* read_json(dtype=True): an object column whose entries all convert with
\* astype("float64") becomes float64, and int64 when it holds no NaN
Coerce(raw, j, x) ==
  IF \A i \in 1..Len(raw) : raw[i][j] = NaN \/ IsNumeric(raw[i][j])
    THEN IF x = NaN THEN NaN
         ELSE IF \E i \in 1..Len(raw) : raw[i][j] = NaN
                THEN [t |-> "float", v |-> x.v]
                ELSE [t |-> "int", v |-> x.v]
    ELSE x

DataFrame(a) ==
  LET cols == ColumnUnion(<<>>, a, 1)
      raw == [i \in 1..Len(a) |-> [j \in 1..Len(cols) |-> Field(a[i], cols[j])]]
  IN  [columns |-> cols,
       rows |-> [i \in 1..Len(a) |->
                   [j \in 1..Len(cols) |-> Coerce(raw, j, raw[i][j])]]]

ParseError == [columns |-> <<"<ValueError>">>, rows |-> <<>>]

\* pd.read_json(BytesIO(json_str.encode())): the frame of the array of
\* objects that json_str is the text of; a ValueError for any other text
read_json(s) ==
  IF \E a \in Arrays, st \in Styles : ArrayText(a, st) = s
    THEN DataFrame(CHOOSE a \in Arrays : \E st \in Styles : ArrayText(a, st) = s)
    ELSE ParseError

\* ------------------------------------------------------------- workbooks
AllKeys == <<"Die No", "Qty", "Die No.1">>
Rows == 1..(2 + MaxRows)
Cols == 1..Len(AllKeys)
Grid == Rows \X Cols

Blank == [c \in Grid |-> None]

\* a worksheet: the cell values and ws.merged_cells, the merged ranges
GrindingSheet ==
  [cells |-> [Blank EXCEPT ![<<1, 1>>] = StrVal(<<"DAILY GRINDING REPORT">>),
                           ![<<2, 1>>] = StrVal(<<"DETAILS">>)],
   merged |-> {[top |-> 2, left |-> 1, bottom |-> 2, right |-> 3],
               [top |-> 3, left |-> 3, bottom |-> 4, right |-> 3]}]

MpiSheet ==
  [cells |-> [Blank EXCEPT ![<<1, 1>>] = StrVal(<<"MPI PRODUCTION BOOK">>)],
   merged |-> {[top |-> 1, left |-> 1, bottom |-> 1, right |-> 3],
               [top |-> 3, left |-> 2, bottom |-> 4, right |-> 2]}]

PlainSheet ==
  [cells |-> [Blank EXCEPT ![<<1, 1>>] = StrVal(<<"REPORT">>)],
   merged |-> {}]

\* the workbook stored in formats/ under each name of TemplateDir
TemplateFile(name) ==
  IF Contains(GRINDING, upper(name)) THEN GrindingSheet
  ELSE IF Contains(MPI, upper(name)) THEN MpiSheet
  ELSE PlainSheet

\* the isinstance test always answering False
MergedCellNever(ws, row, col) == FALSE

\* isinstance(ws.cell(row, column), MergedCell): the cell lies in a merged
\* range and is not its top-left cell
MergedCell(ws, row, col) ==
  \E m \in ws.merged :
    /\ m.top <= row /\ row <= m.bottom
    /\ m.left <= col /\ col <= m.right
    /\ ~(row = m.top /\ col = m.left)

\* the header loop (row 2) and the data loop (rows 3..): record i of the
\* frame, counted from 1 here and from 0 by iterrows, goes to row i + 2
populate(ws, frame) ==
  [ws EXCEPT !.cells =
     [c \in Grid |->
        IF MergedCell(ws, c[1], c[2]) \/ c[2] > Len(frame.columns)
          THEN ws.cells[c]
        ELSE IF c[1] = 2 THEN StrVal(<<frame.columns[c[2]]>>)
        ELSE IF c[1] >= 3 /\ c[1] - 2 <= Len(frame.rows)
          THEN frame.rows[c[1] - 2][c[2]]
        ELSE ws.cells[c]]]

\* ------------------------------------------------------------ file system
FormatsPath(name) == [dir |-> "formats", name |-> name]

SecondText == <<"00", "01", "02", "03", "04", "05">>

\* datetime.now().strftime("%Y%m%d_%H%M%S"): the fraction of the second
\* is dropped
strftime(t) == <<"20261104_1200", SecondText[(t \div TicksPerSecond) + 1]>>

\* os.path.join(output_dir, f"filled_output_{timestamp}.xlsx")
OutputPath(timestamp) ==
  [dir |-> "outputs", name |-> <<"filled_output_">> \o timestamp \o <<".xlsx">>]

\* wb.save(template_path)
SaveTargetTemplate(template_path, output_path) == template_path

\* wb.save(output_path): the path the populated workbook is written to
SaveTarget(template_path, output_path) == output_path

\* load_workbook(output_path): the path the workbook is opened from
LoadTarget(template_path, output_path) == output_path

WriteFile(files, path, data) ==
  [p \in (DOMAIN files) \cup {path} |-> IF p = path THEN data ELSE files[p]]

\* ------------------------------------------------------------------ state
Requests == {"r1", "r2"}

VARIABLES
  variant,        \* which file serves: "main" (main.py) or "safety"
  now,            \* the clock, in ticks
  fs,             \* the files of formats/ and outputs/ : path -> workbook
  debug_file,     \* the content of debug_output.json
  pc,             \* where each request is in upload
  template_name,  \* request.form.get("format")
  prompt,         \* the prompt selected
  result,         \* the answer of the OCR service
  json_str,       \* match.group(0)
  df,             \* the DataFrame
  output_path,    \* the path of the request's copy
  wb,             \* the workbook the request holds in memory
  response,       \* the HTTP response returned
  failed_stage,   \* the stage of the error taxonomy that failed
  log             \* the stage actions the request has performed, in order

vars == <<variant, now, fs, debug_file, pc, template_name, prompt, result,
          json_str, df, output_path, wb, response, failed_stage, log>>

NoName == <<>>
NoText == <<"<unset>">>
NoFrame == [columns |-> <<"<unset>">>, rows |-> <<>>]
NoPath == [dir |-> "", name |-> <<>>]
NoBook == [cells |-> Blank, merged |-> {[top |-> 0, left |-> 0, bottom |-> 0, right |-> 0]}]
NoAnswer == [kind |-> "unset", pre |-> <<>>, body |-> <<>>, post |-> <<>>]
NoResponse == [status |-> 0, body |-> ""]

Init ==
  /\ variant \in {"main", "safety"}
  /\ now = 0
  /\ fs = [p \in {FormatsPath(n) : n \in TemplateDir} |-> TemplateFile(p.name)]
  /\ debug_file = NoText
  /\ pc = [r \in Requests |-> "idle"]
  /\ template_name = [r \in Requests |-> NoName]
  /\ prompt = [r \in Requests |-> "unset"]
  /\ result = [r \in Requests |-> NoAnswer]
  /\ json_str = [r \in Requests |-> NoText]
  /\ df = [r \in Requests |-> NoFrame]
  /\ output_path = [r \in Requests |-> NoPath]
  /\ wb = [r \in Requests |-> NoBook]
  /\ response = [r \in Requests |-> NoResponse]
  /\ failed_stage = [r \in Requests |-> "none"]
  /\ log = [r \in Requests |-> <<>>]

\* ---------------------------------------------------------------- actions
\* request.files.get("image"): absent, an image, a PDF, a PDF without a
\* page, or bytes that are not an image
Images == {"missing", "image", "pdf", "empty_pdf", "corrupt"}

FewNames == { GRINDING \o XLSX, MPI \o XLSX, <<"N","O","P","E">> \o XLSX }

Reply(status, body) == [status |-> status, body |-> body]

\* a `return ..., 4xx/5xx` of upload, or an exception no handler catches
\* (Flask answers 500 Internal Server Error).  The body is the fixed text
\* of the return statement; the text of the exception that two of the
\* handlers append after it is left out.
Fail(r, stage, reply) ==
  /\ pc' = [pc EXCEPT ![r] = "failed"]
  /\ failed_stage' = [failed_stage EXCEPT ![r] = stage]
  /\ response' = [response EXCEPT ![r] = reply]

Did(r, steps) == log' = [log EXCEPT ![r] = log[r] \o steps]

\* input validation, image conversion and prompt selection
Start(r, names) ==
  /\ pc[r] = "idle"
  /\ \E image \in Images, name \in names \cup {NoName} :
       /\ template_name' = [template_name EXCEPT ![r] = name]
       /\ IF image = "missing" \/ name = NoName
            THEN /\ Fail(r, "InputError", Reply(400, "Missing image or template"))
                 /\ UNCHANGED <<prompt, log>>
          ELSE IF variant = "main" /\ image = "empty_pdf"
            THEN /\ Fail(r, "InputError", Reply(400, "No page found in PDF"))
                 /\ UNCHANGED <<prompt, log>>
          ELSE IF variant = "main" /\ image = "corrupt"
            THEN /\ Fail(r, "InputError", Reply(500, "Image or PDF processing failed"))
                 /\ UNCHANGED <<prompt, log>>
          ELSE /\ prompt' = [prompt EXCEPT ![r] = SelectPrompt(variant, name)]
               /\ pc' = [pc EXCEPT ![r] = "resolved"]
               /\ Did(r, <<"resolve">>)
               /\ UNCHANGED <<response, failed_stage>>
  /\ UNCHANGED <<variant, now, fs, debug_file, result, json_str, df,
                 output_path, wb>>

\* the OCR call tried a second time after its first failure
CallOCRRetry(r, answers) ==
  /\ pc[r] = "resolved"
  /\ \E answer \in answers :
       /\ result' = [result EXCEPT ![r] = answer]
       /\ Did(r, <<"ocr">>)
       /\ IF answer.kind = "upstream_error"
            THEN IF Len(log[r]) < 2
                   THEN UNCHANGED <<pc, response, failed_stage>>
                   ELSE Fail(r, "UpstreamError", Reply(500, "GPT-4o failed"))
            ELSE /\ pc' = [pc EXCEPT ![r] = "received"]
                 /\ UNCHANGED <<response, failed_stage>>
  /\ UNCHANGED <<variant, now, fs, debug_file, template_name, prompt,
                 json_str, df, output_path, wb>>

\* openai.chat.completions.create and response.choices[0].message.content
CallOCR(r, answers) ==
  /\ pc[r] = "resolved"
  /\ \E answer \in answers :
       /\ result' = [result EXCEPT ![r] = answer]
       /\ Did(r, <<"ocr">>)
       /\ IF answer.kind = "upstream_error"
            THEN Fail(r, "UpstreamError", Reply(500, "GPT-4o failed"))
            ELSE /\ pc' = [pc EXCEPT ![r] = "received"]
                 /\ UNCHANGED <<response, failed_stage>>
  /\ UNCHANGED <<variant, now, fs, debug_file, template_name, prompt,
                 json_str, df, output_path, wb>>

\* the extraction without the `if not match` return
ExtractUnguarded(r) ==
  /\ pc[r] = "received"
  /\ json_str' = [json_str EXCEPT ![r] = re_search(content(result[r]))]
  /\ debug_file' = re_search(content(result[r]))
  /\ pc' = [pc EXCEPT ![r] = "isolated"]
  /\ Did(r, <<"extract", "debug">>)
  /\ UNCHANGED <<variant, now, fs, template_name, prompt, result, df,
                 output_path, wb, response, failed_stage>>

\* re.search, match.group(0) and the write of debug_output.json
Extract(r) ==
  /\ pc[r] = "received"
  /\ LET match == re_search(content(result[r]))
     IN  IF match = NoMatch
           THEN /\ Fail(r, "ExtractionError",
                        Reply(500, "No valid JSON found in GPT response"))
                /\ Did(r, <<"extract">>)
                /\ UNCHANGED <<json_str, debug_file>>
           ELSE /\ json_str' = [json_str EXCEPT ![r] = match]
                /\ debug_file' = match
                /\ pc' = [pc EXCEPT ![r] = "isolated"]
                /\ Did(r, <<"extract", "debug">>)
                /\ UNCHANGED <<response, failed_stage>>
  /\ UNCHANGED <<variant, now, fs, template_name, prompt, result, df,
                 output_path, wb>>

\* pd.read_json; its ValueError is caught by the handler of the OCR call
Normalize(r) ==
  /\ pc[r] = "isolated"
  /\ LET frame == read_json(json_str[r])
     IN  IF frame = ParseError
           THEN /\ Fail(r, "MalformedRecordError", Reply(500, "GPT-4o failed"))
                /\ UNCHANGED df
           ELSE /\ df' = [df EXCEPT ![r] = frame]
                /\ pc' = [pc EXCEPT ![r] = "normalized"]
                /\ UNCHANGED <<response, failed_stage>>
  /\ Did(r, <<"normalize">>)
  /\ UNCHANGED <<variant, now, fs, debug_file, template_name, prompt, result,
                 json_str, output_path, wb>>

\* the timestamp, the output path and shutil.copy(template_path,
\* output_path); the copy stands outside every try block
Copy(r) ==
  /\ pc[r] = "normalized"
  /\ LET template_path == FormatsPath(template_name[r])
         path == OutputPath(strftime(now))
     IN  /\ output_path' = [output_path EXCEPT ![r] = path]
         /\ \E ok \in BOOLEAN :
              IF ok /\ template_path \in DOMAIN fs
                THEN /\ fs' = WriteFile(fs, path, fs[template_path])
                     /\ pc' = [pc EXCEPT ![r] = "copied"]
                     /\ UNCHANGED <<response, failed_stage>>
                ELSE /\ Fail(r, "WriteError", Reply(500, "Internal Server Error"))
                     /\ UNCHANGED fs
  /\ Did(r, <<"copy">>)
  /\ UNCHANGED <<variant, now, debug_file, template_name, prompt, result,
                 json_str, df, wb>>

\* the reply to a failure of load_workbook or wb.save: main.py catches it,
\* safety.py does not
WriteFailure ==
  IF variant = "main" THEN Reply(500, "Excel Write failed")
  ELSE Reply(500, "Internal Server Error")

\* load_workbook(output_path), wb.active, the header loop and the data loop
Populate(r) ==
  /\ pc[r] = "copied"
  /\ \E ok \in BOOLEAN :
       IF ok
         THEN /\ wb' = [wb EXCEPT ![r] =
                   populate(fs[LoadTarget(FormatsPath(template_name[r]),
                                          output_path[r])], df[r])]
              /\ pc' = [pc EXCEPT ![r] = "populated"]
              /\ Did(r, <<"load", "populate">>)
              /\ UNCHANGED <<response, failed_stage>>
         ELSE /\ Fail(r, "WriteError", WriteFailure)
              /\ Did(r, <<"load">>)
              /\ UNCHANGED wb
  /\ UNCHANGED <<variant, now, fs, debug_file, template_name, prompt, result,
                 json_str, df, output_path>>

\* wb.save(output_path) and send_file
Save(r) ==
  /\ pc[r] = "populated"
  /\ \E ok \in BOOLEAN :
       IF ok
         THEN /\ fs' = WriteFile(fs, SaveTarget(FormatsPath(template_name[r]),
                                                output_path[r]), wb[r])
              /\ pc' = [pc EXCEPT ![r] = "persisted"]
              /\ response' = [response EXCEPT ![r] = Reply(200, "attachment")]
              /\ UNCHANGED failed_stage
         ELSE /\ Fail(r, "WriteError", WriteFailure)
              /\ UNCHANGED fs
  /\ Did(r, <<"save">>)
  /\ UNCHANGED <<variant, now, debug_file, template_name, prompt, result,
                 json_str, df, output_path, wb>>

\* time passes
Tick ==
  /\ now < MaxClock
  /\ now' = now + 1
  /\ UNCHANGED <<variant, fs, debug_file, pc, template_name, prompt, result,
                 json_str, df, output_path, wb, response, failed_stage, log>>

\* two requests served side by side
Next ==
  \/ \E r \in Requests : Start(r, FewNames)
  \/ \E r \in Requests : CallOCR(r, FewAnswers)
  \/ \E r \in Requests : Extract(r)
  \/ \E r \in Requests : Normalize(r)
  \/ \E r \in Requests : Copy(r)
  \/ \E r \in Requests : Populate(r)
  \/ \E r \in Requests : Save(r)
  \/ Tick

Spec == Init /\ [][Next]_vars

\* one request, over every template name and every answer
NextOne ==
  \/ Start("r1", TemplateNames)
  \/ CallOCR("r1", Answers)
  \/ Extract("r1")
  \/ Normalize("r1")
  \/ Copy("r1")
  \/ Populate("r1")
  \/ Save("r1")
  \/ Tick

SpecOne == Init /\ [][NextOne]_vars

\* ------------------------------------------------------------- properties
InLog(r, step) == \E i \in 1..Len(log[r]) : log[r][i] = step

\* a cell of sheet ws that is a non-anchor member of a merged region
NonAnchor(ws, c) ==
  \E m \in ws.merged :
    /\ c[1] \in m.top..m.bottom /\ c[2] \in m.left..m.right
    /\ c # <<m.top, m.left>>

\* a cell the header loop or the data loop targets for the frame
Targeted(frame, c) ==
  /\ c[2] <= Len(frame.columns)
  /\ c[1] = 2 \/ (c[1] >= 3 /\ c[1] - 2 <= Len(frame.rows))

\* C1: after the header loop and the data loop, every cell that is a
\* non-anchor member of a merged region of the template holds the value it
\* has in the template, in the workbook in memory and in the saved file.
C1_MergedCellsKept ==
  \A r \in Requests :
    pc[r] \in {"populated", "persisted"} =>
      LET t == fs[FormatsPath(template_name[r])]
      IN  \A c \in Grid :
            NonAnchor(t, c) =>
              /\ wb[r].cells[c] = t.cells[c]
              /\ pc[r] = "persisted" => fs[output_path[r]].cells[c] = t.cells[c]

\* a saved workbook whose column labels and whose data values both targeted
\* a non-anchor merged cell
C1_Witness ==
  \E r \in Requests :
    /\ pc[r] = "persisted"
    /\ \E c, d \in Grid :
         /\ NonAnchor(fs[FormatsPath(template_name[r])], c)
         /\ NonAnchor(fs[FormatsPath(template_name[r])], d)
         /\ Targeted(df[r], c) /\ Targeted(df[r], d)
         /\ c[1] = 2 /\ d[1] >= 3

\* C2: any two requests that computed an output path computed different
\* paths.
C2_DistinctOutputPaths ==
  \A r1, r2 \in Requests :
    (r1 # r2 /\ output_path[r1] # NoPath /\ output_path[r2] # NoPath)
      => output_path[r1] # output_path[r2]

\* C3: a request whose OCR answer holds no array fails at extraction and
\* copies and opens nothing; a request copies a file only when its answer
\* held an array that was isolated and parsed.
C3_NoWorkbookWithoutArray ==
  \A r \in Requests :
    /\ (result[r].kind = "prose" /\ InLog(r, "extract")) =>
         /\ pc[r] = "failed"
         /\ failed_stage[r] = "ExtractionError"
         /\ response[r] = Reply(500, "No valid JSON found in GPT response")
         /\ ~InLog(r, "copy") /\ ~InLog(r, "load")
         /\ output_path[r] = NoPath /\ wb[r] = NoBook
    /\ InLog(r, "copy") =>
         /\ result[r].kind = "array"
         /\ json_str[r] = result[r].body
         /\ df[r] # NoFrame

\* a request that failed at extraction on a prose answer
C3_Witness ==
  \E r \in Requests :
    /\ result[r].kind = "prose"
    /\ pc[r] = "failed"
    /\ InLog(r, "extract")

\* C4: a prompt is selected for every name, by testing the upper-cased name
\* for GRINDING (the grinding prompt), then for MPI (the MPI prompt), every
\* other name selecting the two-column-pair prompt.
C4_UpperCasedPriority ==
  \A r \in Requests :
    InLog(r, "resolve") =>
      prompt[r] = IF Contains(GRINDING, upper(template_name[r])) THEN "grinding"
                  ELSE IF Contains(MPI, upper(template_name[r])) THEN "mpi"
                  ELSE "two_column_pair"

\* the records of the array an answer carries
RecordsOf(answer) ==
  CHOOSE a \in Arrays : \E st \in Styles : ArrayText(a, st) = answer.body

HasKey(rec, key) == \E i \in 1..Len(rec) : rec[i][1] = key

\* C5: the frame's columns are the union of the record keys in order of
\* first occurrence, every row has len(columns) entries, and a record that
\* lacks a column holds the empty string "" there, which is also the value
\* written to the cell.
C5_MissingFieldIsEmptyString ==
  \A r \in Requests :
    df[r] # NoFrame =>
      LET a == RecordsOf(result[r])
          frame == df[r]
      IN  /\ \A j \in 1..Len(frame.columns) :
               /\ \E i \in 1..Len(a) : HasKey(a[i], frame.columns[j])
               /\ \A k \in 1..(j - 1) : frame.columns[k] # frame.columns[j]
          /\ \A i \in 1..Len(a) : \A k \in 1..Len(a[i]) :
               \E j \in 1..Len(frame.columns) : frame.columns[j] = a[i][k][1]
          /\ Len(frame.rows) = Len(a)
          /\ \A i \in 1..Len(a) :
               /\ Len(frame.rows[i]) = Len(frame.columns)
               /\ \A j \in 1..Len(frame.columns) :
                    ~HasKey(a[i], frame.columns[j]) =>
                      /\ frame.rows[i][j] = StrVal(<<>>)
                      /\ (pc[r] \in {"populated", "persisted"}
                            /\ ~NonAnchor(wb[r], <<i + 2, j>>))
                           => wb[r].cells[<<i + 2, j>>] = StrVal(<<>>)

\* C6: two failures of different stages get different responses, and every
\* failure gets a response.
C6_StageIdentified ==
  \A r1, r2 \in Requests :
    /\ pc[r1] = "failed" => response[r1] # NoResponse
    /\ (pc[r1] = "failed" /\ pc[r2] = "failed"
          /\ failed_stage[r1] # failed_stage[r2])
         => response[r1] # response[r2]

\* C7: a request whose template name is no file of formats/ is answered
\* with the client error and the OCR service is not called for it.
C7_UnknownTemplateIsClientError ==
  \A r \in Requests :
    (pc[r] # "idle" /\ template_name[r] # NoName
       /\ FormatsPath(template_name[r]) \notin DOMAIN fs)
      => /\ pc[r] = "failed"
         /\ response[r].status = 400
         /\ ~InLog(r, "ocr")

\* C8: every file of formats/ has the content it had at the start, and no
\* request's output path is a path of formats/.
C8_TemplatesUnchanged ==
  /\ \A n \in TemplateDir :
       /\ FormatsPath(n) \in DOMAIN fs
       /\ fs[FormatsPath(n)] = TemplateFile(n)
  /\ \A r \in Requests : output_path[r] # NoPath => output_path[r].dir = "outputs"

\* a request saved a workbook that differs from its template
C8_Witness ==
  \E r \in Requests :
    /\ pc[r] = "persisted"
    /\ fs[output_path[r]] # TemplateFile(template_name[r])

\* C9: for an answer that holds one well-formed array, json_str is that
\* array's text; for an answer without an array the request fails with the
\* extraction error.
C9_ExtractReturnsTheArray ==
  \A r \in Requests :
    InLog(r, "extract") =>
      /\ result[r].kind = "array" => json_str[r] = result[r].body
      /\ result[r].kind = "prose" =>
           /\ pc[r] = "failed"
           /\ failed_stage[r] = "ExtractionError"

StageOrder ==
  <<"resolve", "ocr", "extract", "debug", "normalize", "copy", "load",
    "populate", "save">>

\* Idle, TemplateResolved, ResponseReceived, JsonIsolated, TableNormalized,
\* (the copy made), WorkbookPopulated, Persisted
StageRank(p) ==
  CASE p = "idle" -> 0 [] p = "resolved" -> 1 [] p = "received" -> 2
    [] p = "isolated" -> 3 [] p = "normalized" -> 4 [] p = "copied" -> 5
    [] p = "populated" -> 6 [] p = "persisted" -> 7 [] OTHER -> 8

\* C10: a request moves one stage forward at a time or fails; the stage
\* actions it performs are a prefix of the pipeline's order, so none is
\* repeated and the OCR service is called at most once; after a failure it
\* performs nothing more.
C10_StagesInOrder ==
  [][\A r \in Requests :
       /\ pc'[r] # pc[r] =>
            \/ pc'[r] = "failed" /\ pc[r] # "persisted"
            \/ StageRank(pc'[r]) = StageRank(pc[r]) + 1
       /\ Len(log'[r]) <= Len(StageOrder)
       /\ log'[r] = SubSeq(StageOrder, 1, Len(log'[r]))
       /\ pc[r] = "failed" =>
            /\ pc'[r] = "failed" /\ log'[r] = log[r]
            /\ result'[r] = result[r] /\ json_str'[r] = json_str[r]
            /\ df'[r] = df[r] /\ output_path'[r] = output_path[r]
            /\ wb'[r] = wb[r] /\ response'[r] = response[r]]_vars

\* one request persisted and the other failed after its OCR call
C10_Witness ==
  \E r1, r2 \in Requests :
    /\ pc[r1] = "persisted"
    /\ pc[r2] = "failed" /\ InLog(r2, "ocr")
====
